---- MODULE Spec2Model ----
(***************************************************************************)
(* Model of the fuzzy cache-key resolution of the custom search service:   *)
(* normalizeQuery, generateCacheKeyVariations, findSimilarCachedQueries,   *)
(* checkCache and the Search handler (internal/app/handlers/search.go),    *)
(* over the key-value store wrapper of internal/cache/cache.go.            *)
(*                                                                         *)
(* A Go string is modelled as a sequence of one-character strings, so that *)
(* <<"a", " ", "b">> stands for "a b".                                     *)
(***************************************************************************)
EXTENDS Integers, Sequences, FiniteSets, TLC

----------------------------------------------------------------------------
(* Characters *)

UpperSeq ==
  <<"A","B","C","D","E","F","G","H","I","J","K","L","M",
    "N","O","P","Q","R","S","T","U","V","W","X","Y","Z">>

LowerSeq ==
  <<"a","b","c","d","e","f","g","h","i","j","k","l","m",
    "n","o","p","q","r","s","t","u","v","w","x","y","z">>

DigitSeq == <<"0","1","2","3","4","5","6","7","8","9">>

Range(s) == {s[i] : i \in DOMAIN s}

\* The letters of Latin-1 beyond ASCII: the capitals U+00C0..U+00DE and the
\* small letters U+00E0..U+00FE that unicode.ToLower maps them to.
Latin1UpperSeq ==
  <<"À","Á","Â","Ã","Ä","Å","Æ","Ç","È","É","Ê","Ë","Ì",
    "Í","Î","Ï","Ð","Ñ","Ò","Ó","Ô","Õ","Ö","Ø","Ù","Ú",
    "Û","Ü","Ý","Þ">>

Latin1LowerSeq ==
  <<"à","á","â","ã","ä","å","æ","ç","è","é","ê","ë","ì",
    "í","î","ï","ð","ñ","ò","ó","ô","õ","ö","ø","ù","ú",
    "û","ü","ý","þ">>

\* The capitals beyond U+00FF, written by the name of their code point, and
\* the small letters unicode.ToLower maps them to.  Every capital whose small
\* letter is a character of ASCII or of Latin-1 is here: U+0130 (I with dot
\* above) goes to "i", U+0178 to "ÿ", U+1E9E to "ß", U+212A (Kelvin sign) to
\* "k" and U+212B (Angstrom sign) to "å".  Of the capitals whose small letter
\* is beyond U+00FF too, which the regexp of search.go:119 deletes in
\* either case, U+0100 and U+03A9 stand for all.
WideUpperSeq ==
  <<"U+0100", "U+0130", "U+0178", "U+03A9", "U+1E9E", "U+212A", "U+212B">>

WideLowerSeq ==
  <<"U+0101", "i", "ÿ", "U+03C9", "ß", "k", "å">>

\* unicode.ToLower on one rune (strings.ToLower maps it over the string):
\* a capital goes to its small letter, every other character of the model
\* (small letters, digits, punctuation, spaces) to itself.
ToLowerChar(c) ==
  IF \E i \in DOMAIN UpperSeq : UpperSeq[i] = c
    THEN LowerSeq[CHOOSE i \in DOMAIN UpperSeq : UpperSeq[i] = c]
    ELSE IF \E i \in DOMAIN Latin1UpperSeq : Latin1UpperSeq[i] = c
      THEN Latin1LowerSeq[CHOOSE i \in DOMAIN Latin1UpperSeq : Latin1UpperSeq[i] = c]
    ELSE IF \E i \in DOMAIN WideUpperSeq : WideUpperSeq[i] = c
      THEN WideLowerSeq[CHOOSE i \in DOMAIN WideUpperSeq : WideUpperSeq[i] = c]
      ELSE c

\* The Unicode white space beyond ASCII, in code point order.  A character
\* that cannot stand in a string of the module is written by a name: "nbsp"
\* is U+00A0 and "U+xxxx" the character of that code point ("U+000B" is
\* the vertical tab '\v', "U+0085" the next-line control).
UnicodeSpaceSeq ==
  <<"U+0085", "nbsp",
    "U+1680","U+2000","U+2001","U+2002","U+2003","U+2004","U+2005","U+2006","U+2007","U+2008","U+2009","U+200A","U+2028",
    "U+2029","U+202F","U+205F","U+3000">>

\* unicode.IsSpace, the class strings.TrimSpace cuts: '\t', '\n', '\v', '\f',
\* '\r', ' ', U+0085, U+00A0 and the spaces of category Z.
IsUnicodeSpace(c) ==
  c \in {" ", "\t", "\n", "U+000B", "\f", "\r"} \cup Range(UnicodeSpaceSeq)

\* The regexp class \s of Go (RE2): [\t\n\f\r ] and nothing else.
IsReSpace(c) == c \in {" ", "\t", "\n", "\f", "\r"}

\* The regexp class \w of Go (RE2): [0-9A-Za-z_], ASCII only.
IsReWord(c) == c \in Range(UpperSeq) \cup Range(LowerSeq) \cup Range(DigitSeq) \cup {"_"}

\* Byte order of the characters, as Go's string comparison sees them (the
\* order of the UTF-8 encodings is that of the code points).
ByteOrder ==
  <<"\t", "\n", "U+000B", "\f", "\r", " ", "!", "+", ",">> \o DigitSeq \o <<":">> \o UpperSeq
    \o <<"_">> \o LowerSeq \o SubSeq(UnicodeSpaceSeq, 1, 2)
    \o Latin1UpperSeq \o <<"ß">> \o Latin1LowerSeq \o <<"ÿ">>
    \o <<"U+0100", "U+0101", "U+0130", "U+0178", "U+03A9", "U+03C9">>
    \o SubSeq(UnicodeSpaceSeq, 3, 3) \o <<"U+1E9E">>
    \o SubSeq(UnicodeSpaceSeq, 4, 18) \o <<"U+212A", "U+212B">>
    \o SubSeq(UnicodeSpaceSeq, 19, 19)

Ord(c) ==
  IF \E i \in DOMAIN ByteOrder : ByteOrder[i] = c
    THEN CHOOSE i \in DOMAIN ByteOrder : ByteOrder[i] = c
    ELSE 0

----------------------------------------------------------------------------
(* Strings *)

\* strings.ToLower
ToLower(s) == [i \in DOMAIN s |-> ToLowerChar(s[i])]

RECURSIVE TrimLeft(_)
TrimLeft(s) ==
  IF s # <<>> /\ IsUnicodeSpace(Head(s)) THEN TrimLeft(Tail(s)) ELSE s

RECURSIVE TrimRight(_)
TrimRight(s) ==
  IF s # <<>> /\ IsUnicodeSpace(s[Len(s)])
    THEN TrimRight(SubSeq(s, 1, Len(s) - 1))
    ELSE s

\* strings.TrimSpace
TrimSpace(s) == TrimRight(TrimLeft(s))

\* regexp `[^\w\s]` ReplaceAllString(query, ""), search.go:119-120
RemoveSpecial(s) == SelectSeq(s, LAMBDA c : IsReWord(c) \/ IsReSpace(c))

\* regexp `\s+` ReplaceAllString(query, " "), search.go:122-123
RECURSIVE CollapseSpaces(_)
CollapseSpaces(s) ==
  IF s = <<>> THEN <<>>
  ELSE IF IsReSpace(Head(s))
    THEN IF Len(s) > 1 /\ IsReSpace(s[2])
           THEN CollapseSpaces(Tail(s))
           ELSE <<" ">> \o CollapseSpaces(Tail(s))
    ELSE <<Head(s)>> \o CollapseSpaces(Tail(s))

\* strings.Split(s, " "): the pieces between single spaces; Split("", " ") is [""].
RECURSIVE SplitFrom(_, _)
SplitFrom(s, cur) ==
  IF s = <<>> THEN <<cur>>
  ELSE IF Head(s) = " " THEN <<cur>> \o SplitFrom(Tail(s), <<>>)
  ELSE SplitFrom(Tail(s), Append(cur, Head(s)))

Split(s) == SplitFrom(s, <<>>)

\* strings.Join(words, sep)
RECURSIVE Join(_, _)
Join(words, sep) ==
  IF words = <<>> THEN <<>>
  ELSE IF Len(words) = 1 THEN words[1]
  ELSE words[1] \o sep \o Join(Tail(words), sep)

\* Go's string order a < b: byte-wise lexicographic.
RECURSIVE StrLess(_, _)
StrLess(a, b) ==
  IF b = <<>> THEN FALSE
  ELSE IF a = <<>> THEN TRUE
  ELSE IF Head(a) = Head(b) THEN StrLess(Tail(a), Tail(b))
  ELSE Ord(Head(a)) < Ord(Head(b))

RECURSIVE InsertSorted(_, _)
InsertSorted(w, sorted) ==
  IF sorted = <<>> THEN <<w>>
  ELSE IF StrLess(w, Head(sorted)) THEN <<w>> \o sorted
  ELSE <<Head(sorted)>> \o InsertSorted(w, Tail(sorted))

\* sort.Strings
RECURSIVE SortStrings(_)
SortStrings(words) ==
  IF words = <<>> THEN <<>>
  ELSE InsertSorted(Head(words), SortStrings(Tail(words)))

Min2(a, b) == IF a < b THEN a ELSE b

MinOf(S) == CHOOSE m \in S : \A y \in S : m <= y

\* One row of the Levenshtein table: from the row `prev` for the first i-1
\* characters of a (prev[j+1] is the distance to the first j characters of
\* b), the row for the first i characters, the last of which is ca.  Cell j
\* is min(prev[j+1]+1, prev[j]+cost, cell[j-1]+1); the last term is unfolded
\* into a minimum over the cells to the left.
LevRow(ca, b, i, prev) ==
  LET t == [k \in 0..Len(b) |->
              IF k = 0 THEN i
              ELSE Min2(prev[k + 1] + 1, prev[k] + (IF ca = b[k] THEN 0 ELSE 1))]
  IN SubSeq([j \in 1..(Len(b) + 1) |->
               MinOf({t[k] + (j - 1 - k) : k \in 0..(j - 1)})],
            1, Len(b) + 1)

RECURSIVE LevRows(_, _, _, _)
LevRows(a, b, i, prev) ==
  IF i > Len(a) THEN prev[Len(b) + 1]
  ELSE LET row == LevRow(a[i], b, i, prev)
       IN IF row[1] = i   \* cell 0 of row i; the test has the row computed here
            THEN LevRows(a, b, i + 1, row)
            ELSE -1

\* levenshtein.ComputeDistance(a, b): the edit distance over runes.
ComputeDistance(a, b) ==
  IF a = b THEN 0 ELSE LevRows(a, b, 1, [j \in 1..(Len(b) + 1) |-> j - 1])

----------------------------------------------------------------------------
(* normalizeQuery and generateCacheKeyVariations *)

\* search.go:114-126
normalizeQuery(query) ==
  CollapseSpaces(RemoveSpecial(TrimSpace(ToLower(query))))

\* search.go:158-166: drop empty strings and later duplicates, keep the order.
RECURSIVE RemoveDuplicates(_, _)
RemoveDuplicates(variations, result) ==
  IF variations = <<>> THEN result
  ELSE LET v == Head(variations) IN
       IF v # <<>> /\ v \notin Range(result)
         THEN RemoveDuplicates(Tail(variations), Append(result, v))
         ELSE RemoveDuplicates(Tail(variations), result)

\* generateCacheKeyVariations with the variation without spaces put before
\* the sorted one.
generateCacheKeyVariationsReordered(query) ==
  LET normalized == normalizeQuery(query)
      queryWords == Split(normalized)
      longWords == SelectSeq(queryWords, LAMBDA w : Len(w) > 3)
  IN RemoveDuplicates(<<normalized, Join(queryWords, <<>>),
                        Join(SortStrings(queryWords), <<" ">>)>>
                        \o (IF Len(longWords) > 0 THEN <<Join(longWords, <<" ">>)>> ELSE <<>>),
                      <<>>)

\* search.go:129-169
generateCacheKeyVariations(query) ==
  LET normalized == normalizeQuery(query)
      queryWords == Split(normalized)
      sortedWords == SortStrings(queryWords)
      longWords == SelectSeq(queryWords, LAMBDA w : Len(w) > 3)
      variations ==
        <<normalized, Join(sortedWords, <<" ">>)>>
          \o (IF Len(longWords) > 0 THEN <<Join(longWords, <<" ">>)>> ELSE <<>>)
          \o <<Join(queryWords, <<>>)>>
  IN RemoveDuplicates(variations, <<>>)

----------------------------------------------------------------------------
(* Cache keys, cache.go and the fuzzy matcher *)

\* The literal "search:" of search.go:38, 49, 189, 367.
SearchPrefix == <<"s","e","a","r","c","h",":">>

\* fmt.Sprintf("search:%s", variation), search.go:189 and 367
CacheKey(variation) == SearchPrefix \o variation

\* fmt.Sprintf("%s:%s", c.prefix, key), cache.go:40, 50, 81
FullKey(prefix, key) == prefix \o <<":">> \o key

HasPrefix(s, p) == Len(s) >= Len(p) /\ SubSeq(s, 1, Len(p)) = p

\* strings.TrimPrefix
TrimPrefix(s, p) == IF HasPrefix(s, p) THEN SubSeq(s, Len(p) + 1, Len(s)) ELSE s

\* Local threshold of search.go:46 (the whole-query edit distance).
maxLevenshteinDistance == 3

\* Threshold of search.go:76 (the per-word edit distance).
maxWordDistance == 2

\* A score is the exact quotient num/den of the float64 division the code
\* performs; scores compare as the quotients do.
ScoreGreater(a, b) == a[1] * b[2] > b[1] * a[2]

\* wordMatchRatio >= 0.6, search.go:90
RatioAccepted(matchingWords, maxLen) == matchingWords * 10 >= 6 * maxLen

\* MatchesOfKey with the tag of the first method on the candidates of the
\* second as well.
MatchesOfKeyOneTag(normalized, queryWords, key) ==
  LET cachedQuery == TrimPrefix(key, SearchPrefix)
      distance == ComputeDistance(normalized, cachedQuery)
      cachedWords == Split(cachedQuery)
      matchingWords ==
        Cardinality({i \in DOMAIN queryWords :
                       \E j \in DOMAIN cachedWords :
                         ComputeDistance(queryWords[i], cachedWords[j]) <= maxWordDistance})
      maxLen == IF Len(cachedWords) > Len(queryWords)
                  THEN Len(cachedWords) ELSE Len(queryWords)
  IN IF cachedQuery = normalized THEN <<>>
     ELSE IF distance <= maxLevenshteinDistance
       THEN <<[Key |-> key, CachedQuery |-> cachedQuery,
               Score |-> <<1, distance + 1>>, Method |-> "levenshtein"]>>
     ELSE IF RatioAccepted(matchingWords, maxLen)
       THEN <<[Key |-> key, CachedQuery |-> cachedQuery,
               Score |-> <<matchingWords, maxLen>>, Method |-> "levenshtein"]>>
     ELSE <<>>

\* search.go:49-97: the body of the loop over allKeys, for one key: the
\* CacheMatch it appends, if any.
MatchesOfKey(normalized, queryWords, key) ==
  LET cachedQuery == TrimPrefix(key, SearchPrefix)
      distance == ComputeDistance(normalized, cachedQuery)
      cachedWords == Split(cachedQuery)
      matchingWords ==
        Cardinality({i \in DOMAIN queryWords :
                       \E j \in DOMAIN cachedWords :
                         ComputeDistance(queryWords[i], cachedWords[j]) <= maxWordDistance})
      maxLen == IF Len(cachedWords) > Len(queryWords)
                  THEN Len(cachedWords) ELSE Len(queryWords)
  IN IF cachedQuery = normalized THEN <<>>
     ELSE IF distance <= maxLevenshteinDistance
       THEN <<[Key |-> key, CachedQuery |-> cachedQuery,
               Score |-> <<1, distance + 1>>, Method |-> "levenshtein"]>>
     ELSE IF RatioAccepted(matchingWords, maxLen)
       THEN <<[Key |-> key, CachedQuery |-> cachedQuery,
               Score |-> <<matchingWords, maxLen>>, Method |-> "word-match"]>>
     ELSE <<>>

RECURSIVE CollectMatches(_, _, _)
CollectMatches(normalized, queryWords, allKeys) ==
  IF allKeys = <<>> THEN <<>>
  ELSE MatchesOfKey(normalized, queryWords, Head(allKeys))
         \o CollectMatches(normalized, queryWords, Tail(allKeys))

\* Insertion of m into a list sorted by score descending, after every entry
\* whose score is not smaller (the insertion sort of sort.Slice on at most
\* 12 elements, which keeps ties in their order).
RECURSIVE InsertByScore(_, _)
InsertByScore(m, sorted) ==
  IF sorted = <<>> THEN <<m>>
  ELSE IF ScoreGreater(m.Score, Head(sorted).Score) THEN <<m>> \o sorted
  ELSE <<Head(sorted)>> \o InsertByScore(m, Tail(sorted))

\* sort.Slice(matches, Score greater first), search.go:101-103
RECURSIVE SortByScore(_, _)
SortByScore(matches, sorted) ==
  IF matches = <<>> THEN sorted
  ELSE SortByScore(Tail(matches), InsertByScore(Head(matches), sorted))

\* search.go:106-108
Truncate(matches, maxResults) ==
  IF Len(matches) > maxResults THEN SubSeq(matches, 1, maxResults) ELSE matches

\* The length up to which the sort.Slice of search.go:101 is an insertion
\* sort, which keeps equal scores in their order; above it the slice is
\* partitioned and equal scores may come out in any order.
maxInsertion == 12

\* The matches not yet placed that no other such match has a greater score
\* than: what an ordering by score descending may place next.
BestRemaining(matches, used) ==
  {i \in DOMAIN matches \ used :
     \A j \in DOMAIN matches \ used : ~ScoreGreater(matches[j].Score, matches[i].Score)}

\* The sequences that can be the first k entries of an ordering of matches
\* by score descending.
RECURSIVE SortedPrefixes(_, _, _)
SortedPrefixes(matches, used, k) ==
  IF k = 0 THEN {<<>>}
  ELSE UNION {{<<matches[i]>> \o t : t \in SortedPrefixes(matches, used \union {i}, k - 1)} :
                i \in BestRemaining(matches, used)}

\* search.go:100-110: the results sort.Slice and the truncation may leave.
SortAndTruncate(matches, maxResults) ==
  IF Len(matches) <= maxInsertion
    THEN {Truncate(SortByScore(matches, <<>>), maxResults)}
    ELSE SortedPrefixes(matches, {}, Min2(maxResults, Len(matches)))

\* search.go:29-111, given the keys Cache.Keys returned, in their order: the
\* results the function may return.
findSimilarCachedQueries(query, maxResults, allKeys) ==
  LET normalized == normalizeQuery(query)
      queryWords == Split(normalized)
  IN SortAndTruncate(CollectMatches(normalized, queryWords, allKeys), maxResults)

----------------------------------------------------------------------------
(* The state: the cache handle, the Redis keyspace and the requests *)

VARIABLES
  Cache,    \* handlers.Cache: NIL, or the wrapper NewCache built
  store,    \* the Redis keyspace: full key |-> the entry stored (Entry, Counter)
  req,      \* for each client, the request it has in the Search handler
  started,  \* the number of requests received so far
  admin,    \* the number of calls made so far to SetCache and to the store
            \* by the callers other than the Search handler
  held,     \* the values Cache has had so far
  call      \* a single call of one of the pure functions (specification SpecFn)

vars == <<Cache, store, req, started, admin, held, call>>

\* The nil *cache.Cache (SetCache was not called, or was called with nil),
\* and the wrapper NewCache(client, p) builds.
NIL == [isNil |-> TRUE, prefix |-> <<>>]

NewCache(p) == [isNil |-> FALSE, prefix |-> p]

\* The clients whose requests the model follows call by call.  The requests
\* served at the same time by other goroutines act on these only through
\* the keyspace, by their cache write: the action ConcurrentSet.
Clients == {"c1"}

\* The number of requests the model lets arrive, followed or not.
MaxRequests == 2

\* The prefixes NewCache may have been given (cache.go:18-24).
Prefixes == {<<>>, <<"p">>}

\* The raw values of the query parameter q the clients send:
\*   "", "!", "a b", "b a", "A b"
Queries ==
  { <<>>, <<"!">>, <<"a", " ", "b">>, <<"b", " ", "a">>, <<"A", " ", "b">> }

\* constants.CACHE_TTL_MINUTES
CACHE_TTL_MINUTES == 30

\* The second argument of findSimilarCachedQueries at search.go:223.
FuzzyMaxResults == 5

\* OpenLibraryResponse values (handlers.go:22-27), by numFound and docs.
ZeroRecord == [numFound |-> 0, docs |-> <<>>]

\* What the provider may answer with on success.
Records == { [numFound |-> 42, docs |-> <<"d1", "d2">>] }

\* What a key of the keyspace holds.  Entry: the JSON of an
\* OpenLibraryResponse, written by Cache.Set to live ttl minutes.  Counter:
\* the decimal integer n that INCR leaves, with no time to live (ttl 0).
Entry(value, ttl) == [value |-> value, ttl |-> ttl, number |-> 0]

Counter(n) == [value |-> ZeroRecord, ttl |-> 0, number |-> n]

EmptyStore == [k \in {} |-> Entry(ZeroRecord, 0)]

\* The number of calls the model lets the other callers make.
MaxAdmin == 1

\* The keys the callers of Cache.Delete and Cache.Increment pass.
AdminKeys == { <<"s","e","a","r","c","h",":","a"," ","b">> }

\* Go's nil error, and the errors of the store and of the provider.
NoErr == ""
redisNil == "redis: nil"
ErrGetNil == "failed to get value from Redis: redis: nil"
ErrGetConn == "failed to get value from Redis: connection refused"
ErrUnmarshal == "json: cannot unmarshal number into Go value of type handlers.OpenLibraryResponse"
ErrNilDeref == "runtime error: invalid memory address or nil pointer dereference"
ErrKeysConn == "keys: connection refused"
ErrSetConn == "set: connection refused"
ErrTransport == "Failed to get search results"
ErrReadBody == "Failed to read response body"
ErrParseBody == "Failed to parse API response"
ErrMissingQuery == "Search query parameter 'q' is required"

NoMatch == [Key |-> <<>>, CachedQuery |-> <<>>, Score |-> <<0, 1>>, Method |-> ""]

NoResp ==
  [status |-> 0, error |-> NoErr, cached |-> FALSE, fuzzyMatch |-> FALSE,
   numFound |-> 0, results |-> <<>>, matched |-> <<>>]

\* c.JSON(http.StatusBadRequest / InternalServerError, gin.H{"error": ...})
ErrorResp(status, error) == [NoResp EXCEPT !.status = status, !.error = error]

\* c.JSON(http.StatusOK, ...) of search.go:205-212 (cacheKey is the variation)
ExactHitResp(rec, variation) ==
  [NoResp EXCEPT !.status = 200, !.cached = TRUE, !.numFound = rec.numFound,
                 !.results = rec.docs, !.matched = variation]

\* c.JSON(http.StatusOK, ...) of search.go:249-258
FuzzyHitResp(rec, match) ==
  [NoResp EXCEPT !.status = 200, !.cached = TRUE, !.fuzzyMatch = TRUE,
                 !.numFound = rec.numFound, !.results = rec.docs,
                 !.matched = match.CachedQuery]

\* c.JSON(http.StatusOK, ...) of search.go:391-402
FreshResp(rec) ==
  [NoResp EXCEPT !.status = 200, !.numFound = rec.numFound, !.results = rec.docs]

\* The reply of gin.Recovery (main.go:105) to a handler that panicked: status
\* 500 and no body.
PanicResp == [NoResp EXCEPT !.status = 500]

\* One entry of a request's history: a store call, the provider call, a
\* warning logged or a panic, with the key (or URL query) and the error it
\* ended with.
Op(op, key, err) == [op |-> op, key |-> key, err |-> err, ttl |-> 0, status |-> 0]

\* A request.  pc is where the handler stands.  A call of a method of Cache
\* is two steps: the handler reads the variable Cache and enters the method,
\* which builds the full key from the prefix of the value read (loaded); then
\* Redis runs the command, on the keyspace as it is by then.  The handler
\* stands before the read of Cache for a point get of the exact lookup
\* ("lookup"), before Redis runs that get ("get"), before the nil test of
\* findSimilarCachedQueries ("fuzzy"), before the read of Cache for the key
\* enumeration ("enum"), before Redis runs it ("keys"), before the read of
\* Cache for the follow-up get ("best"), before Redis runs that get
\* ("fuzzyget"), before the provider call ("fetch"), before the read of Cache
\* for the cache write ("store"), before Redis runs the write ("set"), or it
\* has returned ("done").  ops, snap, quiet, cfg, steady and cleared are history
\* variables the code does not read: the calls made so far, the keyspace as
\* the request found it on arrival, whether the keyspace has stayed as it was
\* all through the cache resolution, the value of Cache on arrival, whether
\* Cache has stayed that value while the request was served, and whether
\* SetCache has set it to nil meanwhile.
IdleReq ==
  [pc |-> "idle", query |-> <<>>, variations |-> <<>>, i |-> 0, loaded |-> NIL,
   cachedResponse |-> ZeroRecord, best |-> NoMatch, apiResponse |-> ZeroRecord,
   resp |-> NoResp, ops |-> <<>>, snap |-> EmptyStore, quiet |-> TRUE,
   cfg |-> NIL, steady |-> TRUE, cleared |-> FALSE]

\* No call of a pure function made yet; query, prefix and keys are its inputs.
NoCall == [fn |-> "none", query |-> <<>>, prefix |-> <<>>, keys |-> <<>>, ret |-> <<>>]

Init ==
  /\ Cache \in {NIL} \cup {NewCache(p) : p \in Prefixes}
  /\ store = EmptyStore
  /\ req = [c \in Clients |-> IdleReq]
  /\ started = 0
  /\ admin = 0
  /\ held = {Cache}
  /\ call = NoCall

----------------------------------------------------------------------------
(* cache.go *)

\* cache.go:40
SetFullKey(prefix, key) == FullKey(prefix, key)

\* cache.go:50
GetFullKey(prefix, key) == FullKey(prefix, key)

\* cache.go:81
KeysFullPattern(prefix, pattern) == FullKey(prefix, pattern)

\* Cache.GetJSON(key, &v), cache.go:49-56: the outcomes it may have in the
\* keyspace st, each the error returned and the value v holds afterwards
\* (v is left as it was, old, when the call fails).  A get may fail on the
\* connection at any time; the JSON Cache.Set stored unmarshals, the integer
\* of a counter does not.
GetJSON(st, prefix, key, old) ==
  LET fullKey == GetFullKey(prefix, key) IN
  IF fullKey \in DOMAIN st
    THEN { IF st[fullKey].number = 0
             THEN [err |-> NoErr, v |-> st[fullKey].value]
             ELSE [err |-> ErrUnmarshal, v |-> old],
           [err |-> ErrGetConn, v |-> old] }
    ELSE { [err |-> ErrGetNil, v |-> old], [err |-> ErrGetConn, v |-> old] }

\* Redis KEYS with the pattern <prefix>:search:* : the stored keys it matches.
MatchingKeys(st, fullPattern) ==
  LET lit == SubSeq(fullPattern, 1, Len(fullPattern) - 1)
  IN {k \in DOMAIN st : HasPrefix(k, lit)}

\* The orders in which KEYS may list a set of keys.
Orderings(S) == {s \in [1..Cardinality(S) -> S] : Range(s) = S}

\* Cache.Keys(pattern), cache.go:80-83: the outcomes it may have.
Keys(st, prefix, pattern) ==
  {[err |-> ErrKeysConn, keys |-> <<>>]}
    \cup {[err |-> NoErr, keys |-> ks] :
            ks \in Orderings(MatchingKeys(st, KeysFullPattern(prefix, pattern)))}

\* Cache.Set(key, value, ttl), cache.go:26-42, when Redis accepts the write.
Set(st, prefix, key, value, ttl) ==
  LET fullKey == SetFullKey(prefix, key)
  IN [k \in DOMAIN st \cup {fullKey} |->
        IF k = fullKey THEN Entry(value, ttl) ELSE st[k]]

\* Cache.Delete(key), cache.go:58-61, when Redis accepts the call.
Delete(st, prefix, key) ==
  LET fullKey == FullKey(prefix, key)
  IN [k \in DOMAIN st \ {fullKey} |-> st[k]]

\* Cache.Increment(key), cache.go:69-72, when Redis accepts the call: INCR
\* sets a key that is not there to 1, adds one to an integer, and leaves any
\* other value as it is (with an error to the caller).
Increment(st, prefix, key) ==
  LET fullKey == FullKey(prefix, key)
  IN IF fullKey \notin DOMAIN st
       THEN [k \in DOMAIN st \cup {fullKey} |->
               IF k = fullKey THEN Counter(1) ELSE st[k]]
     ELSE IF st[fullKey].number > 0
       THEN [st EXCEPT ![fullKey].number = @ + 1]
     ELSE st

\* Cache.FlushAll(), cache.go:86-88, when Redis accepts the call.
FlushAll(st) == EmptyStore

----------------------------------------------------------------------------
(* search.go: checkCache and Search, one action for each call that leaves
   the handler (a store call or the provider call) *)

\* The pattern of search.go:38.
SearchPattern == SearchPrefix \o <<"*">>

\* search.go:287-288
searchQuery(normalizedQuery) == Join(Split(normalizedQuery), <<"+">>)

\* WriteKey storing under the sorted-words variation instead of the
\* normalized query.
WriteKeySorted(normalizedQuery) ==
  CacheKey(Join(SortStrings(Split(normalizedQuery)), <<" ">>))

\* search.go:367
WriteKey(normalizedQuery) == CacheKey(normalizedQuery)

\* search.go:192 and 236: if err == nil
\* ErrIsNil with the test turned round: a get that failed counts as a hit.
ErrIsNilInverted(err) == err # NoErr

ErrIsNil(err) == err = NoErr

\* Whether r is inside checkCache, between its first and its last store call.
Resolving(r) == r.pc \in {"lookup", "get", "fuzzy", "enum", "keys", "best", "fuzzyget"}

\* History only: the requests rq after the keyspace went from store to st2;
\* those inside checkCache have seen the keyspace change.
Disturb(rq, st2) ==
  [c \in Clients |->
     IF Resolving(rq[c]) /\ st2 # store THEN [rq[c] EXCEPT !.quiet = FALSE] ELSE rq[c]]

\* Arrive without the check of the q parameter.
ArriveUnchecked(q) ==
  LET r0 == [IdleReq EXCEPT !.query = q, !.snap = store, !.cfg = Cache] IN
  IF Cache = NIL
    THEN [r0 EXCEPT !.pc = "fetch"]
  ELSE LET variations == generateCacheKeyVariations(q) IN
       [r0 EXCEPT !.variations = variations,
                  !.i = IF variations = <<>> THEN 0 ELSE 1,
                  !.pc = IF variations = <<>> THEN "fuzzy" ELSE "lookup"]

\* search.go:277-288 and 173-185: the handler from the arrival of a request
\* with query parameter q up to its first call out.
Arrive(q) ==
  LET r0 == [IdleReq EXCEPT !.query = q, !.snap = store, !.cfg = Cache] IN
  IF q = <<>>
    THEN [r0 EXCEPT !.pc = "done", !.resp = ErrorResp(400, ErrMissingQuery)]
  ELSE IF Cache = NIL
    THEN [r0 EXCEPT !.pc = "fetch"]
  ELSE LET variations == generateCacheKeyVariations(q) IN
       [r0 EXCEPT !.variations = variations,
                  !.i = IF variations = <<>> THEN 0 ELSE 1,
                  !.pc = IF variations = <<>> THEN "fuzzy" ELSE "lookup"]

\* A method of *cache.Cache called on the nil pointer reads c.prefix
\* (cache.go:40, 50, 81) and panics; gin.Recovery answers the request.
Panic(r) ==
  [r EXCEPT !.pc = "done", !.resp = PanicResp,
            !.ops = Append(@, Op("panic", <<>>, ErrNilDeref))]

Start(c, q) ==
  /\ req[c].pc \in {"idle", "done"}
  /\ started < MaxRequests
  /\ started' = started + 1
  /\ req' = [req EXCEPT ![c] = Arrive(q)]
  /\ UNCHANGED <<Cache, store, admin, held, call>>

\* NextLookup giving the exact lookup up after a get that failed for another
\* reason than a missing key.
NextLookupAbandon(r, err) ==
  IF err # ErrGetNil THEN [r EXCEPT !.pc = "fetch"]
  ELSE IF r.i < Len(r.variations) THEN [r EXCEPT !.i = r.i + 1, !.pc = "lookup"]
  ELSE [r EXCEPT !.pc = "fuzzy"]

\* search.go:188 and 219: the for loop over the variations goes on to the
\* next variation after a get that ended with err, and falls out of the loop
\* after the last one.
NextLookup(r, err) ==
  IF r.i < Len(r.variations)
    THEN [r EXCEPT !.i = r.i + 1, !.pc = "lookup"]
    ELSE [r EXCEPT !.pc = "fuzzy"]

\* AfterExactGet going on to the next variation after a hit.
AfterExactGetContinue(r, prefix, out) ==
  LET variation == r.variations[r.i]
      r1 == [r EXCEPT !.cachedResponse = out.v,
                      !.ops = Append(@, Op("get", GetFullKey(prefix, CacheKey(variation)), out.err))]
  IN IF ErrIsNil(out.err) /\ r.i = Len(r.variations)
       THEN [r1 EXCEPT !.pc = "done", !.resp = ExactHitResp(out.v, variation)]
       ELSE NextLookup(r1, out.err)

\* AfterExactGet running the fuzzy matcher after a hit.
AfterExactGetThenFuzzy(r, prefix, out) ==
  LET variation == r.variations[r.i]
      r1 == [r EXCEPT !.cachedResponse = out.v,
                      !.ops = Append(@, Op("get", GetFullKey(prefix, CacheKey(variation)), out.err))]
  IN IF ErrIsNil(out.err)
       THEN [r1 EXCEPT !.pc = "fuzzy", !.resp = ExactHitResp(out.v, variation)]
       ELSE NextLookup(r1, out.err)

\* search.go:189-219: one turn of the loop, the get having ended with out.
AfterExactGet(r, prefix, out) ==
  LET variation == r.variations[r.i]
      cacheKey == CacheKey(variation)
      r1 == [r EXCEPT !.cachedResponse = out.v,
                      !.ops = Append(@, Op("get", GetFullKey(prefix, cacheKey), out.err))]
  IN IF ErrIsNil(out.err)
       THEN [r1 EXCEPT !.pc = "done", !.resp = ExactHitResp(out.v, variation)]
       ELSE IF out.err # redisNil
         THEN NextLookup([r1 EXCEPT !.ops = Append(@, Op("warn", cacheKey, out.err))],
                         out.err)
         ELSE NextLookup(r1, out.err)

\* The handler reads Cache for a method call and enters the method, going on
\* to the point next: the method of a nil pointer panics, that of a wrapper
\* has its request to Redis under way.
Load(r, next) ==
  IF Cache = NIL THEN Panic(r) ELSE [r EXCEPT !.loaded = Cache, !.pc = next]

\* search.go:190 with cache.go:50: Cache is read for the point get.
LoadGet(c) ==
  /\ req[c].pc = "lookup"
  /\ req' = [req EXCEPT ![c] = Load(req[c], "get")]
  /\ UNCHANGED <<Cache, store, started, admin, held, call>>

\* cache.go:51-55 with search.go:192-219: Redis runs the get of the wrapper
\* the handler read, and the handler takes the result.
ExactGet(c) ==
  /\ req[c].pc = "get"
  /\ \E out \in GetJSON(store, req[c].loaded.prefix,
                        CacheKey(req[c].variations[req[c].i]), req[c].cachedResponse) :
       req' = [req EXCEPT ![c] = AfterExactGet(req[c], req[c].loaded.prefix, out)]
  /\ UNCHANGED <<Cache, store, started, admin, held, call>>

\* search.go:223 with 30-32: findSimilarCachedQueries returns nil when Cache
\* is nil, and checkCache then reports the miss.
FuzzyEnter(c) ==
  /\ req[c].pc = "fuzzy"
  /\ req' = [req EXCEPT ![c].pc = IF Cache = NIL THEN "fetch" ELSE "enum"]
  /\ UNCHANGED <<Cache, store, started, admin, held, call>>

\* search.go:39 with cache.go:81: Cache is read again for the enumeration.
LoadKeys(c) ==
  /\ req[c].pc = "enum"
  /\ req' = [req EXCEPT ![c] = Load(req[c], "keys")]
  /\ UNCHANGED <<Cache, store, started, admin, held, call>>

\* search.go:223-227 with 29-43: the key enumeration having ended with out
\* and findSimilarCachedQueries having returned fuzzyMatches.
AfterKeys(r, prefix, out, fuzzyMatches) ==
  LET fullPattern == KeysFullPattern(prefix, SearchPattern)
      r1 == [r EXCEPT !.ops = Append(@, Op("keys", fullPattern, out.err))]
  IN IF out.err # NoErr
       THEN [r1 EXCEPT !.ops = Append(@, Op("warn", SearchPattern, out.err)),
                       !.pc = "fetch"]
       ELSE IF Len(fuzzyMatches) > 0
         THEN [r1 EXCEPT !.best = fuzzyMatches[1], !.pc = "best"]
         ELSE [r1 EXCEPT !.pc = "fetch"]

\* cache.go:82 with search.go:40-111 and 225-234: Redis runs the enumeration
\* of the wrapper the handler read, and the handler scores the keys.
FuzzyKeys(c) ==
  /\ req[c].pc = "keys"
  /\ \E out \in Keys(store, req[c].loaded.prefix, SearchPattern) :
       \E fuzzyMatches \in findSimilarCachedQueries(req[c].query, FuzzyMaxResults, out.keys) :
         req' = [req EXCEPT ![c] = AfterKeys(req[c], req[c].loaded.prefix, out, fuzzyMatches)]
  /\ UNCHANGED <<Cache, store, started, admin, held, call>>

\* search.go:235 with cache.go:50: Cache is read again for the follow-up get.
LoadFuzzyGet(c) ==
  /\ req[c].pc = "best"
  /\ req' = [req EXCEPT ![c] = Load(req[c], "fuzzyget")]
  /\ UNCHANGED <<Cache, store, started, admin, held, call>>

\* AfterFuzzyGet taking a key that is not there for a hit, with whatever the
\* response variable held.
AfterFuzzyGetStale(r, prefix, out) ==
  LET r1 == [r EXCEPT !.cachedResponse = out.v,
                      !.ops = Append(@, Op("fuzzyget", GetFullKey(prefix, r.best.Key), out.err))]
  IN IF out.err \in {NoErr, ErrGetNil}
       THEN [r1 EXCEPT !.pc = "done", !.resp = FuzzyHitResp(out.v, r.best)]
       ELSE [r1 EXCEPT !.pc = "fetch"]

\* search.go:235-271: the follow-up get of the best match having ended with out.
AfterFuzzyGet(r, prefix, out) ==
  LET r1 == [r EXCEPT !.cachedResponse = out.v,
                      !.ops = Append(@, Op("fuzzyget", GetFullKey(prefix, r.best.Key), out.err))]
  IN IF ErrIsNil(out.err)
       THEN [r1 EXCEPT !.pc = "done", !.resp = FuzzyHitResp(out.v, r.best)]
       ELSE [r1 EXCEPT !.pc = "fetch"]

\* cache.go:51-55 with search.go:236-261: Redis runs the follow-up get of the
\* wrapper the handler read.
FuzzyGet(c) ==
  /\ req[c].pc = "fuzzyget"
  /\ \E out \in GetJSON(store, req[c].loaded.prefix, req[c].best.Key, req[c].cachedResponse) :
       req' = [req EXCEPT ![c] = AfterFuzzyGet(req[c], req[c].loaded.prefix, out)]
  /\ UNCHANGED <<Cache, store, started, admin, held, call>>

\* What http.Get, io.ReadAll and json.Unmarshal of search.go:309-354 may end
\* with: a transport failure, an unreadable body, an unparseable body, or a
\* body that parses, into one of Records or (a JSON body without the fields)
\* into the zero value.  status is the status code of the reply (0: none
\* came), which search.go:322-324 logs and the handler does not act on; a
\* reply with status 500 carries an error page or a JSON error object.
UpstreamOutcomes ==
  { [err |-> ErrTransport, rec |-> ZeroRecord, status |-> 0],
    [err |-> ErrReadBody, rec |-> ZeroRecord, status |-> 200],
    [err |-> ErrParseBody, rec |-> ZeroRecord, status |-> 500],
    [err |-> NoErr, rec |-> ZeroRecord, status |-> 500] }
    \cup {[err |-> NoErr, rec |-> rec, status |-> 200] : rec \in Records \cup {ZeroRecord}}

\* search.go:298-365: the provider call having ended with out.
AfterFetch(r, out) ==
  LET r1 == [r EXCEPT !.ops = Append(@, [Op("http", searchQuery(normalizeQuery(r.query)),
                                            out.err) EXCEPT !.status = out.status])]
  IN IF out.err # NoErr
       THEN [r1 EXCEPT !.pc = "done", !.resp = ErrorResp(500, out.err)]
     ELSE IF Cache = NIL
       THEN [r1 EXCEPT !.pc = "done", !.apiResponse = out.rec, !.resp = FreshResp(out.rec)]
     ELSE [r1 EXCEPT !.pc = "store", !.apiResponse = out.rec]

Fetch(c) ==
  /\ req[c].pc = "fetch"
  /\ \E out \in UpstreamOutcomes :
       req' = [req EXCEPT ![c] = AfterFetch(req[c], out)]
  /\ UNCHANGED <<Cache, store, started, admin, held, call>>

\* AfterSet answering with an error when the cache write failed.
AfterSetFailing(r, prefix, err) ==
  LET r1 == [r EXCEPT !.ops = Append(@, [Op("set", SetFullKey(prefix, WriteKey(normalizeQuery(r.query))), err)
                                           EXCEPT !.ttl = CACHE_TTL_MINUTES])]
  IN IF err # NoErr
       THEN [r1 EXCEPT !.pc = "done", !.resp = ErrorResp(500, err)]
       ELSE [r1 EXCEPT !.pc = "done", !.resp = FreshResp(r.apiResponse)]

\* search.go:367-402: the cache write having ended with err.
AfterSet(r, prefix, err) ==
  LET cacheKey == WriteKey(normalizeQuery(r.query))
      r1 == [r EXCEPT !.ops = Append(@, [Op("set", SetFullKey(prefix, cacheKey), err)
                                           EXCEPT !.ttl = CACHE_TTL_MINUTES])]
      r2 == IF err # NoErr
              THEN [r1 EXCEPT !.ops = Append(@, Op("warn", cacheKey, err))]
              ELSE r1
  IN [r2 EXCEPT !.pc = "done", !.resp = FreshResp(r.apiResponse)]

\* search.go:370 with cache.go:40: Cache, found not nil at line 365, is read
\* again for the write.
LoadSet(c) ==
  /\ req[c].pc = "store"
  /\ req' = [req EXCEPT ![c] = Load(req[c], "set")]
  /\ UNCHANGED <<Cache, store, started, admin, held, call>>

\* cache.go:41 with search.go:371-402: Redis runs the write of the wrapper
\* the handler read, or refuses it, and the handler answers.
CacheSet(c) ==
  /\ req[c].pc = "set"
  /\ \E err \in {NoErr, ErrSetConn} :
       /\ store' = IF err = NoErr
                     THEN Set(store, req[c].loaded.prefix, WriteKey(normalizeQuery(req[c].query)),
                              req[c].apiResponse, CACHE_TTL_MINUTES)
                     ELSE store
       /\ req' = Disturb([req EXCEPT ![c] = AfterSet(req[c], req[c].loaded.prefix, err)], store')
  /\ UNCHANGED <<Cache, started, admin, held, call>>

\* search.go:367-370 in a request the model does not follow, served at the
\* same time as the followed ones: Redis runs its write, of what the provider
\* answered for its query q, under its canonical key.  The request read
\* Cache some time before: loaded is one of the values Cache has had.
ConcurrentSet(loaded, q, rec) ==
  /\ loaded \in held \ {NIL}
  /\ q # <<>>
  /\ started < MaxRequests
  /\ started' = started + 1
  /\ store' = Set(store, loaded.prefix, WriteKey(normalizeQuery(q)), rec, CACHE_TTL_MINUTES)
  /\ req' = Disturb(req, store')
  /\ UNCHANGED <<Cache, admin, held, call>>

\* The queries sent to the service while it ran an older Search.
OlderQueries == { <<"a", " ", "b">> }

\* The time to live of the older Search's entries, in minutes.
OlderTTLMinutes == 2

\* The key of the older Search: the query as typed, its spaces turned into
\* "+", after "search:".
OlderCacheKey(query) == SearchPrefix \o Join(Split(query), <<"+">>)

\* The Search of the earlier revisions of search.go (unnamed/part_000:93-190,
\* unnamed/part_001:17-171), which a process of the service still running it
\* serves against the same keyspace: Redis runs its cache write, of what the
\* provider answered for its query q, whatever the body parsed into.  A
\* request without a query is answered 400 before any cache call
\* (part_000:95-100, part_001:21-26).
OlderSearchSet(loaded, q, rec) ==
  /\ loaded \in held \ {NIL}
  /\ q # <<>>
  /\ started < MaxRequests
  /\ started' = started + 1
  /\ store' = Set(store, loaded.prefix, OlderCacheKey(q), rec, OlderTTLMinutes)
  /\ req' = Disturb(req, store')
  /\ UNCHANGED <<Cache, admin, held, call>>

\* Redis drops a key whose time to live has run out.
Expire(k) ==
  /\ k \in DOMAIN store
  /\ store[k].ttl > 0
  /\ store' = [j \in DOMAIN store \ {k} |-> store[j]]
  /\ req' = Disturb(req, store')
  /\ UNCHANGED <<Cache, started, admin, held, call>>

\* handlers.SetCache(c), handlers.go:17-19, called by another goroutine at
\* any moment: the handler reads the variable without synchronisation, each
\* read finding the value of the last call made before it.
SetCache(c) ==
  /\ admin < MaxAdmin
  /\ admin' = admin + 1
  /\ Cache' = c
  /\ req' = [k \in Clients |->
               IF req[k].pc \notin {"idle", "done"} /\ c # Cache
                 THEN [req[k] EXCEPT !.steady = FALSE,
                                     !.cleared = @ \/ c = NIL]
                 ELSE req[k]]
  /\ held' = held \cup {c}
  /\ UNCHANGED <<store, started, call>>

\* Cache.Delete(key) called by another goroutine on a wrapper it read from
\* Cache some time before: Redis runs the command.
CallDelete(loaded, key) ==
  /\ admin < MaxAdmin
  /\ admin' = admin + 1
  /\ loaded \in held \ {NIL}
  /\ store' = Delete(store, loaded.prefix, key)
  /\ req' = Disturb(req, store')
  /\ UNCHANGED <<Cache, started, held, call>>

\* Cache.Increment(key) called by another goroutine, likewise.
CallIncrement(loaded, key) ==
  /\ admin < MaxAdmin
  /\ admin' = admin + 1
  /\ loaded \in held \ {NIL}
  /\ store' = Increment(store, loaded.prefix, key)
  /\ req' = Disturb(req, store')
  /\ UNCHANGED <<Cache, started, held, call>>

\* Cache.FlushAll() called by another goroutine, likewise.
CallFlushAll ==
  /\ admin < MaxAdmin
  /\ admin' = admin + 1
  /\ held # {NIL}
  /\ store' = FlushAll(store)
  /\ req' = Disturb(req, store')
  /\ UNCHANGED <<Cache, started, held, call>>

Next ==
  \/ \E c \in Clients : \E q \in Queries : Start(c, q)
  \/ \E c \in Clients : LoadGet(c)
  \/ \E c \in Clients : ExactGet(c)
  \/ \E c \in Clients : FuzzyEnter(c)
  \/ \E c \in Clients : LoadKeys(c)
  \/ \E c \in Clients : FuzzyKeys(c)
  \/ \E c \in Clients : LoadFuzzyGet(c)
  \/ \E c \in Clients : FuzzyGet(c)
  \/ \E c \in Clients : Fetch(c)
  \/ \E c \in Clients : LoadSet(c)
  \/ \E c \in Clients : CacheSet(c)
  \/ \E loaded \in held : \E q \in Queries : \E rec \in Records \cup {ZeroRecord} :
       ConcurrentSet(loaded, q, rec)
  \/ \E loaded \in held : \E q \in OlderQueries : \E rec \in Records \cup {ZeroRecord} :
       OlderSearchSet(loaded, q, rec)
  \/ \E k \in DOMAIN store : Expire(k)
  \/ \E c \in {NIL} \cup {NewCache(p) : p \in Prefixes} : SetCache(c)
  \/ \E loaded \in held : \E key \in AdminKeys : CallDelete(loaded, key)
  \/ \E loaded \in held : \E key \in AdminKeys : CallIncrement(loaded, key)
  \/ CallFlushAll

Spec == Init /\ [][Next]_vars

----------------------------------------------------------------------------
(* Properties of the handler, checked under Spec *)

\* Steady: the request was served with Cache holding one value from its
\* arrival on, the configuration of the process, which SetCache has not
\* replaced meanwhile.
Steady(r) == r.steady

\* SetCache has not set Cache to nil while the request was served.
KeptCache(r) == ~r.cleared

\* The cache resolution of the request is over, for a query that passed the
\* check of the q parameter.
Resolved(r) == r.pc \in {"fetch", "store", "set", "done"} /\ r.query # <<>>

\* The number of calls the request has made to the provider.
HttpCalls(r) == Cardinality({i \in DOMAIN r.ops : r.ops[i].op = "http"})

\* The store calls of the cache resolution that failed for another reason
\* than a missing key.
StoreErrors(r) ==
  {i \in DOMAIN r.ops : /\ r.ops[i].op \in {"get", "keys", "fuzzyget"}
                        /\ r.ops[i].err \notin {NoErr, ErrGetNil}}

\* The response is an exact hit that carries the stored entry e.
IsExactHitOf(r, e) ==
  /\ r.pc = "done"
  /\ r.resp.status = 200 /\ r.resp.cached /\ ~r.resp.fuzzyMatch
  /\ r.resp.numFound = e.value.numFound /\ r.resp.results = e.value.docs
  /\ HttpCalls(r) = 0

\* The key Search writes the result of query q under, as the store holds it
\* when the prefix of Cache is prefix.
CanonicalKey(prefix, q) == SetFullKey(prefix, WriteKey(normalizeQuery(q)))

\* The keyspace st holds, under key k, a record that Cache.Set wrote.
HoldsRecord(st, k) == k \in DOMAIN st /\ st[k].number = 0

\* The normalized queries n1 and n2 have the same words in another order.
SameWordsOtherOrder(n1, n2) ==
  n1 # n2 /\ SortStrings(Split(n1)) = SortStrings(Split(n2))

\* C5: a query whose normalized words are those of a stored query in another
\* order is answered as an exact hit with the stored record, while the entry
\* is there.
C5_WordOrderInvariance ==
  \A c \in Clients : \A q1 \in Queries :
    LET r == req[c] IN
    ( /\ r.cfg # NIL /\ Steady(r) /\ Resolved(r) /\ r.quiet /\ StoreErrors(r) = {}
      /\ SameWordsOtherOrder(normalizeQuery(q1), normalizeQuery(r.query))
      /\ HoldsRecord(r.snap, CanonicalKey(r.cfg.prefix, q1)) )
    => IsExactHitOf(r, r.snap[CanonicalKey(r.cfg.prefix, q1)])

C8_CanonicalWriteThenHit ==
  \A c \in Clients :
    LET r == req[c] IN
    ( /\ r.cfg # NIL /\ Steady(r) /\ Resolved(r) /\ r.quiet /\ StoreErrors(r) = {}
      /\ HoldsRecord(r.snap, CanonicalKey(r.cfg.prefix, r.query)) )
    => IsExactHitOf(r, r.snap[CanonicalKey(r.cfg.prefix, r.query)])

\* The point gets of the exact lookup, in the order they were made.
ExactGets(r) == SelectSeq(r.ops, LAMBDA o : o.op = "get")

\* The exact lookup ended without a hit.
ExactLookupMissed(r) ==
  \/ r.pc \in {"fuzzy", "enum", "keys", "best", "fuzzyget", "fetch", "store", "set"}
  \/ r.pc = "done" /\ r.resp.status = 200 /\ ~(r.resp.cached /\ ~r.resp.fuzzyMatch)

\* What C9 says of a request: every variation is tried, in order, when the
\* exact lookup misses; an error response comes from a provider failure only;
\* an enumeration that failed leads to the provider call; and a provider call
\* that succeeded gives the caller the result fetched.
DegradesToMiss(r) ==
  /\ (r.cfg # NIL /\ r.query # <<>> /\ ExactLookupMissed(r))
       => /\ Len(ExactGets(r)) = Len(r.variations)
          /\ \A i \in DOMAIN r.variations :
               \E p \in Prefixes :
                 ExactGets(r)[i].key = GetFullKey(p, CacheKey(r.variations[i]))
  /\ (r.pc = "done" /\ r.query # <<>> /\ r.resp.status # 200)
       => /\ r.resp.status = 500
          /\ r.ops[Len(r.ops)].op = "http" /\ r.ops[Len(r.ops)].err # NoErr
  /\ (r.pc = "done" /\ \E i \in DOMAIN r.ops : r.ops[i].op = "keys" /\ r.ops[i].err # NoErr)
       => HttpCalls(r) = 1
  /\ (r.pc = "done" /\ \E i \in DOMAIN r.ops : r.ops[i].op = "http" /\ r.ops[i].err = NoErr)
       => r.resp = FreshResp(r.apiResponse)

C10_FuzzyFollowUpHit ==
  \A c \in Clients :
    LET r == req[c] IN
    ( /\ Resolved(r) /\ Steady(r) /\ r.quiet /\ StoreErrors(r) = {}
      /\ r.best # NoMatch /\ HoldsRecord(r.snap, r.best.Key) )
    => /\ r.pc = "done"
       /\ r.resp = FuzzyHitResp(r.snap[r.best.Key].value, r.best)
       /\ HttpCalls(r) = 0
       /\ \E i \in DOMAIN r.ops : r.ops[i].op = "fuzzyget" /\ r.ops[i].key = r.best.Key

\* The cache writes the request has made, in order.
SetOps(r) == SelectSeq(r.ops, LAMBDA o : o.op = "set")

\* The provider call of the request came back with a body that parsed.
FetchSucceeded(r) == \E i \in DOMAIN r.ops : r.ops[i].op = "http" /\ r.ops[i].err = NoErr

\* The request has made exactly one cache write, under search:<normalized
\* query> behind the prefix of a wrapper, for 30 minutes.
WroteOnceCanonical(r) ==
  /\ Len(SetOps(r)) = 1
  /\ \E p \in Prefixes :
       SetOps(r)[1].key = p \o <<":">> \o SearchPrefix \o normalizeQuery(r.query)
  /\ SetOps(r)[1].ttl = 30

\* C11, as stated: a request answered after a successful provider call has
\* made exactly one cache write, under the canonical key, for 30 minutes.
C11_WriteAlways ==
  \A c \in Clients :
    (req[c].pc = "done" /\ FetchSucceeded(req[c])) => WroteOnceCanonical(req[c])

\* C11, amended: after a miss and a successful provider call the handler
\* makes exactly one cache write when Cache is not nil as it comes to the
\* write (at the test of search.go:365 and at the call of line 370), and
\* none when Cache is nil there.  The write is of the fetched record, under
\* search:<normalized query> behind the prefix of the wrapper read for the
\* call, for 30 minutes; it changes that key of the store and no other; and
\* no request makes a write anywhere else.
C11_OneCanonicalWrite ==
  [][\A c \in Clients :
       LET r == req[c]
           r2 == req'[c]
           key == r.loaded.prefix \o <<":">> \o SearchPrefix \o normalizeQuery(r.query)
       IN /\ (r.pc = "fetch" /\ r2.pc # "fetch" /\ FetchSucceeded(r2))
               => /\ r2.pc = IF Cache = NIL THEN "done" ELSE "store"
                  /\ SetOps(r2) = <<>>
          /\ (r.pc = "store" /\ r2.pc # "store")
               => /\ r2.pc = IF Cache = NIL THEN "done" ELSE "set"
                  /\ Cache # NIL => r2.loaded = Cache
                  /\ SetOps(r2) = <<>>
          /\ (r.pc = "set" /\ r2.pc # "set")
               => /\ r2.pc = "done" /\ FetchSucceeded(r2)
                  /\ WroteOnceCanonical(r2)
                  /\ SetOps(r2)[1].key = key
                  /\ \/ store' = store /\ SetOps(r2)[1].err # NoErr
                     \/ /\ SetOps(r2)[1].err = NoErr
                        /\ store' = [k \in DOMAIN store \union {key} |->
                                       IF k = key THEN Entry(r.apiResponse, 30)
                                       ELSE store[k]]
          /\ r.pc \notin {"set", "idle", "done"} => SetOps(r2) = SetOps(r)
          /\ r.pc \in {"idle", "done"} => (r2 = r \/ SetOps(r2) = <<>>)
          /\ (r2.pc = "done" /\ FetchSucceeded(r2) /\ SetOps(r2) = <<>>)
               => r2.ops[Len(r2.ops)].op \in {"http", "panic"}
    ]_vars

C11_Witness ==
  \E c \in Clients :
    LET r == req[c] IN
    /\ r.pc = "done" /\ FetchSucceeded(r) /\ ~Steady(r) /\ SetOps(r) # <<>>
    /\ Join(SortStrings(Split(normalizeQuery(r.query))), <<" ">>) # normalizeQuery(r.query)
    /\ SetOps(r)[1].err = NoErr
    /\ SetOps(r)[1].key \in DOMAIN store
    /\ Cache # NIL /\ SetOps(r)[1].key # CanonicalKey(Cache.prefix, r.query)
    /\ r.apiResponse \in Records

\* C12: when the cache write after a successful provider call fails, a
\* warning is logged for it and the response is the fetched result with
\* status 200 and cached = false, as it is when the write succeeds.
C12_WriteFailureHarmless ==
  \A c \in Clients :
    LET r == req[c]
        n == Len(r.ops)
    IN /\ (r.pc = "done" /\ SetOps(r) # <<>> /\ SetOps(r)[1].err # NoErr)
            => /\ r.ops[n].op = "warn" /\ r.ops[n].err = SetOps(r)[1].err
               /\ r.ops[n - 1].op = "set"
       /\ (r.pc = "done" /\ SetOps(r) # <<>>)
            => /\ r.resp.status = 200 /\ r.resp.error = NoErr
               /\ ~r.resp.cached /\ ~r.resp.fuzzyMatch
               /\ r.resp.numFound = r.apiResponse.numFound
               /\ r.resp.results = r.apiResponse.docs

C12_Witness ==
  \E c \in Clients :
    LET r == req[c] IN
    /\ r.pc = "done" /\ SetOps(r) # <<>> /\ SetOps(r)[1].err = ErrSetConn
    /\ ~Steady(r) /\ r.loaded # Cache
    /\ r.apiResponse \in Records
    /\ r.resp.status = 200 /\ r.resp.numFound = 42

\* The provider call of the request failed: no reply, an unreadable or
\* unparseable body, or a reply with a failure status.
ProviderFailed(r) ==
  \E i \in DOMAIN r.ops :
    r.ops[i].op = "http" /\ (r.ops[i].err # NoErr \/ r.ops[i].status >= 400)

\* C13: when the provider call of a request that missed the cache fails,
\* the request ends with an error response and writes nothing to the cache.
C13_UpstreamFailure ==
  \A c \in Clients :
    LET r == req[c] IN
    (ProviderFailed(r) /\ Steady(r))
      => /\ r.pc = "done"
         /\ r.resp.status >= 400 /\ r.resp.error # NoErr
         /\ SetOps(r) = <<>>

\* C14: a request with an empty q is answered with status 400 at once: it
\* makes no cache get, no key enumeration, no provider call and no cache
\* write, and its arrival leaves the store as it was.
C14_EmptyQueryRejected ==
  [][\A c \in Clients :
       (req'[c].query = <<>> /\ req'[c].pc # "idle")
         => /\ req'[c].pc = "done"
            /\ req'[c].resp.status = 400 /\ req'[c].resp.error = ErrMissingQuery
            /\ req'[c].ops = <<>>
            /\ req[c] # req'[c] => store' = store
    ]_vars

C14_Witness ==
  \E c \in Clients :
    /\ req[c].pc = "done" /\ req[c].query = <<>> /\ req[c].resp.status = 400
    /\ store # EmptyStore

\* C15: the point gets of the exact lookup follow the variation list, from
\* the normalized query on, one get for each variation tried; no get is made
\* after a get that returned a stored value, and that get ends the lookup
\* with the hit.  In a request served while Cache is not replaced the gets
\* are all under its prefix.
C15_LookupOrder ==
  \A c \in Clients :
    LET r == req[c]
        g == ExactGets(r)
    IN r.query # <<>>
         => /\ Len(g) <= Len(r.variations)
            /\ \A i \in DOMAIN g :
                 /\ \E p \in Prefixes :
                      g[i].key = p \o <<":">> \o SearchPrefix \o r.variations[i]
                 /\ Steady(r)
                      => g[i].key = r.cfg.prefix \o <<":">> \o SearchPrefix \o r.variations[i]
                 /\ i < Len(g) => g[i].err # NoErr
            /\ g # <<>> => r.variations[1] = normalizeQuery(r.query)
            /\ r.pc = "lookup" => r.i = Len(g) + 1
            /\ r.pc = "get" => r.i = Len(g) + 1
            /\ (g # <<>> /\ g[Len(g)].err = NoErr)
                 => /\ r.pc = "done"
                    /\ r.resp.cached /\ r.resp.matched = r.variations[Len(g)]

C15_Witness ==
  \E c \in Clients :
    LET r == req[c]
        g == ExactGets(r)
    IN /\ ~Steady(r) /\ r.pc = "done" /\ Len(r.variations) = 3 /\ Len(g) = 2
       /\ g[1].err # NoErr /\ g[2].err = NoErr
       /\ r.resp.matched = r.variations[2]

\* C16: a point get of the exact lookup that returns a stored value ends
\* the resolution with the exact hit: it is the last call of the request (no
\* key enumeration, no provider call, no cache write) and the step leaves the
\* store as it was.
C16_HitReturnsAtOnce ==
  [][\A c \in Clients :
       LET r2 == req'[c] IN
       (\E i \in DOMAIN r2.ops : r2.ops[i].op = "get" /\ r2.ops[i].err = NoErr)
         => /\ r2.pc = "done"
            /\ r2.resp.status = 200 /\ r2.resp.cached /\ ~r2.resp.fuzzyMatch
            /\ r2.ops[Len(r2.ops)].op = "get" /\ r2.ops[Len(r2.ops)].err = NoErr
            /\ \A i \in DOMAIN r2.ops : r2.ops[i].op \in {"get", "warn"}
            /\ req[c].pc = "get" => store' = store
    ]_vars

C16_Witness ==
  \E c \in Clients :
    LET r == req[c] IN
    /\ r.pc = "done" /\ r.resp.cached /\ ~r.resp.fuzzyMatch
    /\ r.resp.numFound = 42
    /\ r.ops[Len(r.ops)].op = "get"
    /\ ~Steady(r) /\ r.loaded # Cache
    /\ store # EmptyStore /\ store = r.snap

\* What C18 says of the steps from the choice of the best candidate to the
\* end of its follow-up get: the follow-up get either ends the request with
\* a fuzzy hit that carries the record stored under the candidate's key at
\* that moment, or leaves it at the provider call with no response written;
\* when the candidate's key is gone by then (expired since the enumeration)
\* it is the provider call.  No error response comes of it.
FollowUpStep(r, r2) ==
  /\ r.pc = "best" => r2.pc \in {"best", "fuzzyget"}
  /\ (r.pc = "fuzzyget" /\ r2.pc # "fuzzyget")
       => /\ r2.pc \in {"fetch", "done"}
          /\ r2.pc = "fetch" => r2.resp = NoResp
          /\ r.best.Key \notin DOMAIN store => r2.pc = "fetch"
          /\ r2.pc = "done"
               => /\ HoldsRecord(store, r.best.Key)
                  /\ r2.resp.status = 200 /\ r2.resp.fuzzyMatch
                  /\ r2.resp.numFound = store[r.best.Key].value.numFound
                  /\ r2.resp.results = store[r.best.Key].value.docs

C20_EmptyNormalizedShortCircuit ==
  \A c \in Clients :
    LET r == req[c] IN
    (r.query # <<>> /\ normalizeQuery(r.query) = <<>> /\ Steady(r))
      => /\ \A i \in DOMAIN r.ops : r.ops[i].op # "keys"
         /\ r.best = NoMatch
         /\ ~r.resp.fuzzyMatch

\* C23: a point get that finds no value is not logged as a cache error;
\* a get that fails for another reason is logged as a warning; after either
\* the request goes on.
C23_NotFoundNotLogged ==
  \A c \in Clients :
    LET r == req[c] IN
    \A i \in DOMAIN r.ops :
      /\ r.ops[i].op = "warn" => r.ops[i].err # ErrGetNil
      /\ (r.ops[i].op = "get" /\ r.ops[i].err \notin {NoErr, ErrGetNil})
           => (i < Len(r.ops) /\ r.ops[i + 1].op = "warn" /\ r.ops[i + 1].err = r.ops[i].err)

\* C24: every key in the store, and every key a request writes, is
\* <prefix>:search:<variant> with <variant> the first variation of the query
\* it was written for; no key with an empty variant is written.
C24_WrittenKeys ==
  /\ \A k \in DOMAIN store :
       \E p \in Prefixes :
         /\ k # p \o <<":">> \o SearchPrefix
         /\ \E q \in Queries :
              LET variations == generateCacheKeyVariations(q)
              IN variations # <<>> /\ k = p \o <<":">> \o SearchPrefix \o variations[1]
  /\ \A c \in Clients :
       LET r == req[c]
           variations == generateCacheKeyVariations(r.query)
       IN \A i \in DOMAIN r.ops :
            r.ops[i].op = "set"
              => /\ variations # <<>>
                 /\ \E p \in Prefixes :
                      r.ops[i].key = p \o <<":">> \o SearchPrefix \o variations[1]

----------------------------------------------------------------------------
(* The pure functions on their own: one call of normalizeQuery, of
   generateCacheKeyVariations or of findSimilarCachedQueries, on inputs drawn
   from bounded sets *)

\* The longest query the calls are given.
MaxLen == 4

\* Characters of every kind normalizeQuery tells apart: lower-case and
\* upper-case letters, a digit, white space, punctuation, the underscore, a
\* capital beyond ASCII, the vertical tab, which is white space for
\* strings.TrimSpace and not for the regexp class \s, and the Kelvin sign,
\* a capital beyond ASCII whose small letter is the ASCII "k".
Alphabet == {"a", "b", "A", "1", " ", "\t", "!", "_", "Ä", "U+000B", "U+212A"}

Strings(chars, n) == UNION {[1..k -> chars] : k \in 0..n}

\* Queries and stored variants for the calls of findSimilarCachedQueries.
FuzzyAlphabet == {"a", "b", " "}

StoredVariants == {normalizeQuery(q) : q \in Strings(FuzzyAlphabet, MaxLen)}

\* An enumeration of more keys than the insertion sort of sort.Slice takes,
\* with its query: the variants of two words score 1 against it and those of
\* three words 2/3.
ManyVariants ==
  << <<"a", " ", "a">>,
     <<"a", " ", "a", " ", "a">>,
     <<"b", " ", "b">>,
     <<"a", " ", "a", " ", "b">>,
     <<"a", " ", "b", " ", "a">>,
     <<"a", " ", "b", " ", "b">>,
     <<"b", " ", "a", " ", "a">>,
     <<"b", " ", "a", " ", "b">>,
     <<"b", " ", "b", " ", "a">>,
     <<"b", " ", "b", " ", "b">>,
     <<"a", "a", " ", "a", " ", "a">>,
     <<"a", "a", " ", "a", " ", "b">>,
     <<"a", "a", " ", "b", " ", "a">> >>

ManyKeysQuery == <<"a", " ", "b">>

\* Queries close enough to a whole stored key for the whole-string distance
\* to accept it, a query of longer words with its words in another order,
\* and a query with a word of more than 3 characters, with the variants they
\* are matched against.
EdgeQueries ==
  { <<"s", "e", "a", "r", "c", "h">>,
    <<"s", "e", "a", "r", "c", "h", "a">>,
    <<"p", "s", "e", "a", "r", "c", "h">>,
    <<"a", "a", "a", " ", "b", "b", "b">>,
    <<"b", " ", "a", "a", "a", "a">> }

EdgeVariants ==
  { <<"a">>, <<"b">>, <<"b", "b", "b", " ", "a", "a", "a">> }

InitFn ==
  /\ store = EmptyStore
  /\ req = [c \in Clients |-> IdleReq]
  /\ started = 0
  /\ admin = 0
  /\ \/ /\ Cache = NIL
        /\ \E q \in Strings(Alphabet, MaxLen) : call = [NoCall EXCEPT !.query = q]
     \/ \E p \in Prefixes :
          /\ Cache = NewCache(p)
          /\ \E q \in Strings(FuzzyAlphabet, MaxLen) : \E v \in StoredVariants :
               call = [NoCall EXCEPT !.query = q, !.prefix = p,
                                     !.keys = <<SetFullKey(p, WriteKey(v))>>]
     \/ \E p \in Prefixes :
          /\ Cache = NewCache(p)
          /\ \E q \in EdgeQueries : \E v \in EdgeVariants :
               call = [NoCall EXCEPT !.query = q, !.prefix = p,
                                     !.keys = <<SetFullKey(p, WriteKey(v))>>]
     \/ \E p \in Prefixes :
          /\ Cache = NewCache(p)
          /\ call = [NoCall EXCEPT
                       !.query = ManyKeysQuery, !.prefix = p,
                       !.keys = [k \in DOMAIN ManyVariants |->
                                   SetFullKey(p, WriteKey(ManyVariants[k]))]]
  /\ held = {Cache}

CallNormalizeQuery ==
  /\ call.fn = "none"
  /\ call' = [call EXCEPT !.fn = "normalizeQuery", !.ret = normalizeQuery(call.query)]
  /\ UNCHANGED <<Cache, store, req, started, admin, held>>

CallGenerateCacheKeyVariations ==
  /\ call.fn = "none"
  /\ call' = [call EXCEPT !.fn = "generateCacheKeyVariations",
                          !.ret = generateCacheKeyVariations(call.query)]
  /\ UNCHANGED <<Cache, store, req, started, admin, held>>

CallFindSimilarCachedQueries ==
  /\ call.fn = "none"
  /\ \E ret \in findSimilarCachedQueries(call.query, FuzzyMaxResults, call.keys) :
       call' = [call EXCEPT !.fn = "findSimilarCachedQueries", !.ret = ret]
  /\ UNCHANGED <<Cache, store, req, started, admin, held>>

NextFn ==
  \/ CallNormalizeQuery
  \/ CallGenerateCacheKeyVariations
  \/ CallFindSimilarCachedQueries

SpecFn == InitFn /\ [][NextFn]_vars

----------------------------------------------------------------------------
(* Properties of the pure functions, checked under SpecFn *)

\* C1: normalizing is idempotent: normalizing the result of normalizeQuery
\* again gives the same string, for every query.
C1_NormalizeIdempotent ==
  call.fn = "normalizeQuery" => normalizeQuery(call.ret) = call.ret

\* A punctuation character, as the property of C2 defines it: neither a
\* letter, nor a digit, nor white space.
IsLetter(c) ==
  c \in Range(UpperSeq) \union Range(LowerSeq)
         \union Range(Latin1UpperSeq) \union Range(Latin1LowerSeq) \union {"ß", "ÿ"}
         \union Range(WideUpperSeq) \union Range(WideLowerSeq)

IsPunctuation(c) == ~IsLetter(c) /\ c \notin Range(DigitSeq) /\ ~IsUnicodeSpace(c)

SwapCase(c) ==
  IF c \in Range(UpperSeq) \union Range(Latin1UpperSeq) \union Range(WideUpperSeq)
    THEN ToLowerChar(c)
  ELSE IF \E k \in DOMAIN LowerSeq : LowerSeq[k] = c
       THEN UpperSeq[CHOOSE k \in DOMAIN LowerSeq : LowerSeq[k] = c]
  ELSE IF \E k \in DOMAIN Latin1LowerSeq : Latin1LowerSeq[k] = c
       THEN Latin1UpperSeq[CHOOSE k \in DOMAIN Latin1LowerSeq : Latin1LowerSeq[k] = c]
       ELSE c

\* The queries one edit away from q that differ from it only in the case of
\* a letter or in one punctuation character, put in or taken out anywhere.
CasePunctuationEdits(q) ==
  {[q EXCEPT ![i] = SwapCase(q[i])] : i \in DOMAIN q}
    \union {SubSeq(q, 1, i - 1) \o SubSeq(q, i + 1, Len(q)) :
              i \in {k \in DOMAIN q : IsPunctuation(q[k])}}
    \union {SubSeq(q, 1, i) \o <<c>> \o SubSeq(q, i + 1, Len(q)) :
              i \in 0..Len(q), c \in {a \in Alphabet : IsPunctuation(a)}}

\* C2: two queries that differ only in letter case, or only in punctuation
\* characters at any position, normalize to the same string.
C2_CasePunctuationInsensitive ==
  call.fn = "normalizeQuery" =>
    \A q2 \in CasePunctuationEdits(call.query) : normalizeQuery(q2) = call.ret

NoDuplicates(list) == \A i, j \in DOMAIN list : i # j => list[i] # list[j]

\* C3: for every query the variation list starts with the normalized query,
\* holds no entry twice and holds no empty entry.
C3_VariationsWellFormed ==
  call.fn = "generateCacheKeyVariations" =>
    /\ Len(call.ret) >= 1
    /\ call.ret[1] = normalizeQuery(call.query)
    /\ NoDuplicates(call.ret)
    /\ \A i \in DOMAIN call.ret : call.ret[i] # <<>>

\* C4: the variation list of every non-empty raw query is non-empty.
C4_VariationsNonEmpty ==
  (call.fn = "generateCacheKeyVariations" /\ call.query # <<>>) => call.ret # <<>>

\* The variant a stored key was written for: the key without the store's
\* prefix and without "search:".
VariantOf(prefix, fullKey) == SubSeq(fullKey, Len(SetFullKey(prefix, WriteKey(<<>>))) + 1, Len(fullKey))

\* C6: a stored variant at edit distance 3 from the normalized query is
\* returned as a candidate, and one at edit distance 4 is not.
C6_FuzzyThreshold ==
  call.fn = "findSimilarCachedQueries" =>
    \A k \in DOMAIN call.keys :
      LET d == ComputeDistance(normalizeQuery(call.query), VariantOf(call.prefix, call.keys[k]))
          returned == \E m \in DOMAIN call.ret : call.ret[m].Key = call.keys[k]
      IN /\ d = 3 => returned
         /\ d = 4 => ~returned

\* C17: the string compared with the normalized query, and reported as the
\* candidate's matched variant, is the <variant> part of the enumerated key
\* <prefix>:search:<variant>, and a key whose variant is the normalized query
\* is not among the candidates.
C17_ComparedStringIsVariant ==
  call.fn = "findSimilarCachedQueries" =>
    /\ \A m \in DOMAIN call.ret :
         call.ret[m].CachedQuery = VariantOf(call.prefix, call.ret[m].Key)
    /\ \A k \in DOMAIN call.keys :
         VariantOf(call.prefix, call.keys[k]) = normalizeQuery(call.query)
           => \A m \in DOMAIN call.ret : call.ret[m].Key # call.keys[k]

\* The scores a and b are equal.
ScoreEqual(a, b) == ~ScoreGreater(a, b) /\ ~ScoreGreater(b, a)

\* The place of candidate i in the stable ordering of all by score
\* descending: behind every candidate with a greater score and every earlier
\* one with an equal score.
StableRank(all, i) ==
  1 + Cardinality({j \in DOMAIN all :
                     \/ ScoreGreater(all[j].Score, all[i].Score)
                     \/ ScoreEqual(all[j].Score, all[i].Score) /\ j < i})

\* C19: the result is the candidates by score descending, equal scores in
\* the order of enumeration, cut to the first maxResults.
C19_StableOrder ==
  call.fn = "findSimilarCachedQueries" =>
    LET normalized == normalizeQuery(call.query)
        all == CollectMatches(normalized, Split(normalized), call.keys)
    IN call.ret = [m \in 1..Min2(FuzzyMaxResults, Len(all)) |->
                     all[CHOOSE i \in DOMAIN all : StableRank(all, i) = m]]

\* The candidates of the result made from key.
CandidatesOf(key) == {m \in DOMAIN call.ret : call.ret[m].Key = key}

\* C21: a stored key whose variant is at whole-string distance d, 1 <= d <= 3,
\* from the normalized query gives exactly one candidate, tagged as accepted
\* by distance and with score 1/(d+1); every key gives at most one
\* candidate, and every score lies between 0 and 1.  (Stated for the queries
\* with something to match on: a non-empty normalized form.)
C21_DistanceScore ==
  (call.fn = "findSimilarCachedQueries" /\ normalizeQuery(call.query) # <<>>) =>
    /\ \A k \in DOMAIN call.keys :
         LET d == ComputeDistance(normalizeQuery(call.query),
                                  VariantOf(call.prefix, call.keys[k]))
         IN /\ Cardinality(CandidatesOf(call.keys[k])) <= 1
            /\ (1 <= d /\ d <= 3)
                 => \E m \in CandidatesOf(call.keys[k]) :
                      /\ call.ret[m].Score[1] * (d + 1) = call.ret[m].Score[2]
                      /\ call.ret[m].Method = "levenshtein"
    /\ \A m \in DOMAIN call.ret :
         /\ call.ret[m].Score[1] >= 0 /\ call.ret[m].Score[2] > 0
         /\ call.ret[m].Score[1] <= call.ret[m].Score[2]

\* The larger of two numbers.
Max2(a, b) == IF a > b THEN a ELSE b

\* The number of words of qw that have a word of sw at edit distance at
\* most 2.
MatchedWords(qw, sw) ==
  Cardinality({i \in DOMAIN qw : \E j \in DOMAIN sw : ComputeDistance(qw[i], sw[j]) <= 2})

\* C22: a stored key whose variant is not accepted by whole-string distance
\* is a candidate exactly when the query words matched by a word of the
\* variant, over the larger of the two word counts, come to 0.6 or more, and
\* its score is that ratio.  (Stated for the queries with a non-empty
\* normalized form and the variants other than the normalized query.)
C22_WordOverlap ==
  (call.fn = "findSimilarCachedQueries" /\ normalizeQuery(call.query) # <<>>) =>
    \A k \in DOMAIN call.keys :
      LET normalized == normalizeQuery(call.query)
          variant == VariantOf(call.prefix, call.keys[k])
          qw == Split(normalized)
          sw == Split(variant)
          matched == MatchedWords(qw, sw)
          maxLen == Max2(Len(qw), Len(sw))
      IN (variant # normalized /\ ComputeDistance(normalized, variant) > 3)
           => /\ (matched * 10 >= 6 * maxLen) <=> CandidatesOf(call.keys[k]) # {}
              /\ \A m \in CandidatesOf(call.keys[k]) :
                   call.ret[m].Score[1] * maxLen = matched * call.ret[m].Score[2]

\* C25: the output of normalizeQuery holds only lower-case letters, digits
\* and spaces, keeps every letter of the input (lower-cased, in order), has
\* no white space at either end and no two white-space characters in a row.
C25_NormalizedAlphabet ==
  call.fn = "normalizeQuery" =>
    LET out == call.ret IN
    /\ \A i \in DOMAIN out :
         out[i] \in Range(LowerSeq) \union Range(Latin1LowerSeq) \union {"ß", "ÿ"}
                     \union Range(DigitSeq) \union {" "}
    /\ SelectSeq(out, IsLetter) = ToLower(SelectSeq(call.query, IsLetter))
    /\ out # <<>> => ~IsUnicodeSpace(out[1]) /\ ~IsUnicodeSpace(out[Len(out)])
    /\ \A i \in DOMAIN out :
         i < Len(out) => ~(IsUnicodeSpace(out[i]) /\ IsUnicodeSpace(out[i + 1]))

\* s is words in another order, with no word before a smaller one.
IsSortedPermutation(s, words) ==
  /\ Len(s) = Len(words)
  /\ \A w \in Range(words) \union Range(s) :
       Cardinality({i \in DOMAIN s : s[i] = w}) = Cardinality({i \in DOMAIN words : words[i] = w})
  /\ \A i, j \in DOMAIN s : i < j => ~StrLess(s[j], s[i])

\* list without its empty entries and without every entry that stands
\* earlier in it already.
KeepFirst(list) ==
  LET keep == {i \in DOMAIN list : list[i] # <<>> /\ \A j \in 1..(i - 1) : list[j] # list[i]}
  IN [m \in 1..Cardinality(keep) |->
        list[CHOOSE i \in keep : Cardinality({j \in keep : j <= i}) = m]]

\* C26: the variation list is, in this order, the normalized query, its
\* words (the pieces between single spaces) sorted and joined by single
\* spaces, its words of more than 3 characters joined by single spaces if
\* there is one, and the normalized query without its spaces, with empty
\* strings and later duplicates left out.
C26_VariationList ==
  call.fn = "generateCacheKeyVariations" =>
    LET normalized == normalizeQuery(call.query)
        words == Split(normalized)
        sorted == CHOOSE s \in [DOMAIN words -> Range(words)] : IsSortedPermutation(s, words)
        long == SelectSeq(words, LAMBDA w : Len(w) > 3)
        noSpaces == SelectSeq(normalized, LAMBDA ch : ch # " ")
    IN call.ret = KeepFirst(<<normalized, Join(sorted, <<" ">>)>>
                              \o (IF long # <<>> THEN <<Join(long, <<" ">>)>> ELSE <<>>)
                              \o <<noSpaces>>)

C26_Witness ==
  /\ call.fn = "generateCacheKeyVariations"
  /\ Len(call.ret) = 4
  /\ call.ret[2] # call.ret[1] /\ Len(call.ret[3]) = 4

\* C27, as stated: a candidate accepted by whole-string distance is tagged
\* "edit-distance", one accepted by the word-overlap method "word-overlap",
\* and there is no other tag.
C27_SpecTags ==
  call.fn = "findSimilarCachedQueries" =>
    \A m \in DOMAIN call.ret :
      LET d == ComputeDistance(normalizeQuery(call.query), call.ret[m].CachedQuery)
      IN /\ call.ret[m].Method \in {"edit-distance", "word-overlap"}
         /\ call.ret[m].Method = "edit-distance" <=> d <= 3

\* C27, amended: a candidate accepted by whole-string distance (its compared
\* string is within distance 3 of the normalized query) is tagged
\* "levenshtein", one accepted by the word-overlap method "word-match", and
\* there is no other tag.
C27_MethodTags ==
  call.fn = "findSimilarCachedQueries" =>
    \A m \in DOMAIN call.ret :
      LET d == ComputeDistance(normalizeQuery(call.query), call.ret[m].CachedQuery)
      IN /\ call.ret[m].Method \in {"levenshtein", "word-match"}
         /\ call.ret[m].Method = "levenshtein" <=> d <= 3

C27_Witness ==
  /\ call.fn = "findSimilarCachedQueries"
  /\ \E m \in DOMAIN call.ret :
       /\ call.ret[m].Method = "levenshtein"
       /\ ComputeDistance(normalizeQuery(call.query), call.ret[m].CachedQuery) = 3

====
